---- MODULE Spec2Model ----
(***************************************************************************)
(* A model of lq.rs, the jq wrapper: the decoders of the three source      *)
(* formats, the call of the external processor, the encoders of the three  *)
(* target formats, and main's two modes (single pass and split).           *)
(***************************************************************************)
EXTENDS Integers, Sequences, FiniteSets, TLC

(***************************************************************************)
(* serde_json::Value, the canonical value.  Every value is a record of one *)
(* shape; the fields a kind does not use are empty.                        *)
(***************************************************************************)
Null == [t |-> "null", n |-> 0, s |-> <<>>, keys |-> <<>>, items |-> <<>>]

Num(k) == [t |-> "num", n |-> k, s |-> <<>>, keys |-> <<>>, items |-> <<>>]

Str(cs) == [t |-> "str", n |-> 0, s |-> cs, keys |-> <<>>, items |-> <<>>]

Arr(xs) == [t |-> "arr", n |-> 0, s |-> <<>>, keys |-> <<>>, items |-> xs]

Obj(ks, xs) == [t |-> "obj", n |-> 0, s |-> <<>>, keys |-> ks, items |-> xs]

\* serde_json::json!({})
EmptyMap == Obj(<<>>, <<>>)

(***************************************************************************)
(* Bytes are one-character strings; a text is a sequence of them.          *)
(***************************************************************************)
NL == "\n"

Quote == "\""

Digits == <<"0", "1", "2", "3", "4", "5", "6", "7", "8", "9">>

IsDigit(c) == \E d \in 1..10 : Digits[d] = c

DigitVal(c) == (CHOOSE d \in 1..10 : Digits[d] = c) - 1

IsWs(c) == c \in {" ", NL}

RECURSIVE Concat(_)
Concat(ss) == IF ss = <<>> THEN <<>> ELSE Head(ss) \o Concat(Tail(ss))

RECURSIVE NumToBytes(_)
NumToBytes(k) ==
  IF k < 10 THEN <<Digits[k + 1]>>
  ELSE NumToBytes(k \div 10) \o <<Digits[(k % 10) + 1]>>

\* the parts of an array or object joined by commas
JoinComma(parts) ==
  Concat([i \in 1..Len(parts) |->
            (IF i > 1 THEN <<",">> ELSE <<>>) \o parts[i]])

\* what precedes the i-th item: in an object its key, in an array nothing
Label(v, i) ==
  IF v.t = "obj" THEN <<Quote>> \o v.keys[i] \o <<Quote, ":">> ELSE <<>>

\* serde_json::to_vec: the compact encoding of a value
RECURSIVE ToJson(_)
ToJson(v) ==
  CASE v.t = "null" -> <<"n", "u", "l", "l">>
    [] v.t = "num" -> NumToBytes(v.n)
    [] v.t = "str" -> <<Quote>> \o v.s \o <<Quote>>
    [] OTHER ->
         <<IF v.t = "arr" THEN "[" ELSE "{">> \o
         JoinComma([i \in 1..Len(v.items) |-> Label(v, i) \o ToJson(v.items[i])]) \o
         <<IF v.t = "arr" THEN "]" ELSE "}">>

(***************************************************************************)
(* serde_json's reader.  A parse result says whether a value was read,     *)
(* the value, the index after it, and whether the value delimits itself    *)
(* (a string, an array or an object does; a number or null does not).      *)
(***************************************************************************)
Fail == [ok |-> FALSE, v |-> Null, i |-> 0, sd |-> FALSE]

Got(val, next, selfd) == [ok |-> TRUE, v |-> val, i |-> next, sd |-> selfd]

RECURSIVE SkipWs(_, _)
SkipWs(b, i) == IF i <= Len(b) /\ IsWs(b[i]) THEN SkipWs(b, i + 1) ELSE i

RECURSIVE DigitsEnd(_, _)
DigitsEnd(b, i) ==
  IF i <= Len(b) /\ IsDigit(b[i]) THEN DigitsEnd(b, i + 1) ELSE i

RECURSIVE DigitsVal(_, _, _, _)
DigitsVal(b, i, e, acc) ==
  IF i >= e THEN acc ELSE DigitsVal(b, i + 1, e, acc * 10 + DigitVal(b[i]))

RECURSIVE QuoteAt(_, _)
QuoteAt(b, i) ==
  IF i > Len(b) THEN 0 ELSE IF b[i] = Quote THEN i ELSE QuoteAt(b, i + 1)

\* a string from the opening quote at i to the closing quote at q (0: there
\* is none); a control character inside is an error
StrTo(b, i, q) ==
  IF q = 0 \/ \E k \in (i + 1)..(q - 1) : b[k] = NL THEN Fail
  ELSE Got(Str(SubSeq(b, i + 1, q - 1)), q + 1, TRUE)

ParseStr(b, i) == StrTo(b, i, QuoteAt(b, i + 1))

\* a number from the digit at i to before e; a leading zero takes no
\* further digit
NumTo(b, i, e) ==
  IF b[i] = "0" /\ e > i + 1 THEN Fail
  ELSE Got(Num(DigitsVal(b, i, e, 0)), e, FALSE)

ParseNum(b, i) == NumTo(b, i, DigitsEnd(b, i))

ParseNull(b, i) ==
  IF i + 3 <= Len(b) /\ SubSeq(b, i, i + 3) = <<"n", "u", "l", "l">>
  THEN Got(Null, i + 4, FALSE)
  ELSE Fail

\* Map::insert: a repeated key replaces the value held
MapInsert(o, k, x) ==
  IF \E j \in 1..Len(o.keys) : o.keys[j] = k
  THEN Obj(o.keys, [j \in 1..Len(o.items) |->
                      IF o.keys[j] = k THEN x ELSE o.items[j]])
  ELSE Obj(Append(o.keys, k), Append(o.items, x))

RECURSIVE ParseValue(_, _), ParseElems(_, _, _), ParseMembers(_, _, _)

\* after an element: a comma and the next element, or the closing bracket
ElemSep(b, j, acc) ==
  IF j > Len(b) THEN Fail
  ELSE CASE b[j] = "," -> ParseElems(b, j + 1, acc)
         [] b[j] = "]" -> Got(Arr(acc), j + 1, TRUE)
         [] OTHER -> Fail

ElemRead(b, r, acc) ==
  IF ~r.ok THEN Fail ELSE ElemSep(b, SkipWs(b, r.i), Append(acc, r.v))

ParseElems(b, i, acc) == ElemRead(b, ParseValue(b, i), acc)

\* after a member: a comma and the next member, or the closing brace
MemberSep(b, j, acc) ==
  IF j > Len(b) THEN Fail
  ELSE CASE b[j] = "," -> ParseMembers(b, j + 1, acc)
         [] b[j] = "}" -> Got(acc, j + 1, TRUE)
         [] OTHER -> Fail

MemberRead(b, name, r, acc) ==
  IF ~r.ok THEN Fail
  ELSE MemberSep(b, SkipWs(b, r.i), MapInsert(acc, name, r.v))

MemberValue(b, name, c, acc) ==
  IF c > Len(b) \/ b[c] # ":" THEN Fail
  ELSE MemberRead(b, name, ParseValue(b, c + 1), acc)

MemberColon(b, k, acc) ==
  IF ~k.ok THEN Fail ELSE MemberValue(b, k.v.s, SkipWs(b, k.i), acc)

MemberKey(b, i, acc) ==
  IF i > Len(b) \/ b[i] # Quote THEN Fail
  ELSE MemberColon(b, ParseStr(b, i), acc)

ParseMembers(b, i, acc) == MemberKey(b, SkipWs(b, i), acc)

\* after the opening bracket or brace, at j
Opened(b, j, open) ==
  IF open = "["
  THEN IF j <= Len(b) /\ b[j] = "]" THEN Got(Arr(<<>>), j + 1, TRUE)
       ELSE ParseElems(b, j, <<>>)
  ELSE IF j <= Len(b) /\ b[j] = "}" THEN Got(EmptyMap, j + 1, TRUE)
       ELSE ParseMembers(b, j, EmptyMap)

ValueAt(b, i) ==
  IF i > Len(b) THEN Fail
  ELSE CASE b[i] = "n" -> ParseNull(b, i)
         [] IsDigit(b[i]) -> ParseNum(b, i)
         [] b[i] = Quote -> ParseStr(b, i)
         [] b[i] \in {"[", "{"} -> Opened(b, SkipWs(b, i + 1), b[i])
         [] OTHER -> Fail

ParseValue(b, i) == ValueAt(b, SkipWs(b, i))

Parsed(ok, v) == [ok |-> ok, v |-> v]

\* Deserializer::end: after the value only whitespace
SliceEnd(b, r) ==
  IF r.ok /\ SkipWs(b, r.i) > Len(b) THEN Parsed(TRUE, r.v)
  ELSE Parsed(FALSE, Null)

\* serde_json::from_slice / from_reader: one value, then only whitespace
FromSlice(b) == SliceEnd(b, ParseValue(b, 1))

\* StreamDeserializer::peek_end_of_value: what may follow a value that does
\* not delimit itself
EndOfValue(b, i) ==
  i > Len(b) \/ IsWs(b[i]) \/ b[i] \in {Quote, "[", "]", "{", "}", ",", ":"}

\* Deserializer::from_slice(..).into_iter().flatten().collect(): the values
\* read up to the end of the text or up to the first error, which ends the
\* iteration and which flatten drops
RECURSIVE StreamValues(_, _, _)

StreamRead(b, r, acc) ==
  IF ~r.ok \/ (~r.sd /\ ~EndOfValue(b, r.i)) THEN acc
  ELSE StreamValues(b, r.i, Append(acc, r.v))

StreamAt(b, i, acc) ==
  IF i > Len(b) THEN acc ELSE StreamRead(b, ParseValue(b, i), acc)

StreamValues(b, i, acc) == StreamAt(b, SkipWs(b, i), acc)

(***************************************************************************)
(* Args, and the argument vectors built from it.  None is an absent        *)
(* Option.                                                                 *)
(***************************************************************************)
None == "None"

\* Args::jq_args
JqArgs(a) ==
  (IF a.jq_query # None THEN <<a.jq_query>> ELSE <<>>) \o
  (IF a.compact_output THEN <<"-c">> ELSE <<>>) \o
  (IF a.raw_output THEN <<"-r">> ELSE <<>>) \o
  (IF a.join_output THEN <<"-j">> ELSE <<>>) \o
  (IF a.modules # None THEN <<"-L", a.modules>> ELSE <<>>)

\* a variant of jq_split_args that takes the key from the main query
JqSplitArgsOfQuery(a) == <<"-r", a.jq_query>>

\* Args::jq_split_args, for a.split # None
JqSplitArgs(a) == <<"-r", a.split>>

(***************************************************************************)
(* The external processor, jq, as far as the filters of the model go: it   *)
(* reads one value from its input, applies the filter and prints each      *)
(* result on a line of its own.                                            *)
(***************************************************************************)
IndexFilters == {".[0]", ".[1]", ".[2]"}

FilterIndex(f) == CASE f = ".[0]" -> 0 [] f = ".[1]" -> 1 [] f = ".[2]" -> 2

FieldFilters == {".a"}

FilterField(f) == CASE f = ".a" -> <<"a">>

Filters == {".", ".[]"} \cup IndexFilters \cup FieldFilters

Flags == {"-c", "-r", "-j"}

\* the first argument that is no option is the filter
RECURSIVE JqFilter(_)
JqFilter(argv) ==
  IF argv = <<>> THEN "."
  ELSE IF Head(argv) \in Flags THEN JqFilter(Tail(argv))
  ELSE IF Head(argv) = "-L" THEN JqFilter(Tail(Tail(argv)))
  ELSE Head(argv)

HasFlag(argv, f) == \E i \in 1..Len(argv) : argv[i] = f

Results(ok, vs) == [ok |-> ok, vs |-> vs]

\* the member of an object under a key, null when there is none
Field(v, k) ==
  IF \E j \in 1..Len(v.keys) : v.keys[j] = k
  THEN v.items[CHOOSE j \in 1..Len(v.keys) : v.keys[j] = k]
  ELSE Null

\* the results of a filter on a value; not ok is jq's runtime error
JqEval(f, v) ==
  CASE f = "." -> Results(TRUE, <<v>>)
    [] f = ".[]" ->
         IF v.t \in {"arr", "obj"} THEN Results(TRUE, v.items)
         ELSE Results(FALSE, <<>>)
    [] f \in IndexFilters ->
         IF v.t = "arr"
         THEN Results(TRUE, <<IF FilterIndex(f) < Len(v.items)
                              THEN v.items[FilterIndex(f) + 1] ELSE Null>>)
         ELSE Results(v.t = "null", <<Null>>)
    [] f \in FieldFilters ->
         IF v.t = "obj" THEN Results(TRUE, <<Field(v, FilterField(f))>>)
         ELSE Results(v.t = "null", <<Null>>)

\* -r and -j print a string without its quotes
Raw(argv) == HasFlag(argv, "-r") \/ HasFlag(argv, "-j")

\* one result as jq prints it; -j leaves the newline out
JqEmit(argv, r) ==
  (IF Raw(argv) /\ r.t = "str" THEN r.s ELSE ToJson(r)) \o
  (IF HasFlag(argv, "-j") THEN <<>> ELSE <<NL>>)

\* how a child ended: its exit status, what it wrote, whether it read its
\* input, and the results it printed (ok: as a value of its own grammar)
Child(status, out, reads, tokens) ==
  [status |-> status, out |-> out, reads |-> reads, tokens |-> tokens]

JqRun(argv, r) ==
  IF ~r.ok THEN Child(5, <<>>, TRUE, <<>>)
  ELSE Child(0, Concat([i \in 1..Len(r.vs) |-> JqEmit(argv, r.vs[i])]), TRUE,
             [i \in 1..Len(r.vs) |->
                [ok |-> ~(Raw(argv) /\ r.vs[i].t = "str"), v |-> r.vs[i]]])

JqRead(argv, f, p) ==
  IF ~p.ok THEN Child(2, <<>>, TRUE, <<>>) ELSE JqRun(argv, JqEval(f, p.v))

JqCompile(argv, f, stdin) ==
  IF f \notin Filters THEN Child(3, <<>>, FALSE, <<>>)
  ELSE JqRead(argv, f, FromSlice(stdin))

\* jq's exit statuses: 3 a filter that does not compile (the input is not
\* read), 2 an input that is no value, 5 an error of the filter on the value
Jq(argv, stdin) == JqCompile(argv, JqFilter(argv), stdin)

(***************************************************************************)
(* The decoders.  The source is what the file or the standard input holds, *)
(* read in the declared format: YAML as its documents in order (a section  *)
(* is a document that converts to a value or one that does not), JSON as   *)
(* bytes, TOML as its lines.                                               *)
(***************************************************************************)
Decoded(kind, docs) == [kind |-> kind, docs |-> docs]

\* try_parse_from(["cmd", "-h"]): clap answers a request for help with
\* Err(DisplayHelp)
TryParseFromHelp == [ok |-> FALSE, kind |-> "DisplayHelp"]

\* `Self::try_parse_from(["cmd", "-h"])?; std::process::exit(2);`: the ?
\* returns the Err to main, whose Err ends the process with status 1
UsageExit == IF TryParseFromHelp.ok THEN 2 ELSE 1

\* the opening `if let Some(f) .. else if !stdin().is_terminal() .. else`
\* of each reader: is there a source to read
HasSource(a, e) ==
  IF a.file # None THEN e.fileExists ELSE ~e.stdinTty /\ ~e.cfgTest

\* a variant of YamlDocs that ends at a document that does not convert and
\* keeps the ones before it, as flatten does in Args::output
RECURSIVE YamlDocsLenient(_, _)
YamlDocsLenient(sections, acc) ==
  IF sections = <<>> \/ ~Head(sections).ok THEN Decoded("ok", acc)
  ELSE YamlDocsLenient(Tail(sections), Append(acc, Head(sections).v))

\* the loop of read_yaml_docs: the documents in order, each converted, the
\* first that does not convert being the error of the whole
RECURSIVE YamlDocs(_, _)
YamlDocs(sections, acc) ==
  IF sections = <<>> THEN Decoded("ok", acc)
  ELSE IF ~Head(sections).ok THEN Decoded("parse", <<>>)
  ELSE YamlDocs(Tail(sections), Append(acc, Head(sections).v))

\* Args::read_yaml_docs
ReadYamlDocs(a, e, src) ==
  IF ~HasSource(a, e) THEN Decoded("usage", <<>>)
  ELSE YamlDocs(src.sections, <<>>)

Payload(kind, bytes) == [kind |-> kind, bytes |-> bytes]

\* a variant of Flatten without the arm for one document
FlattenWrapOne(d) ==
  IF d.kind # "ok" THEN Payload(d.kind, <<>>)
  ELSE CASE Len(d.docs) = 0 -> Payload("ok", ToJson(EmptyMap))
         [] OTHER -> Payload("ok", ToJson(Arr(d.docs)))

\* a variant of Flatten without the arm for no document
FlattenNoDefault(d) ==
  IF d.kind # "ok" THEN Payload(d.kind, <<>>)
  ELSE CASE Len(d.docs) = 1 -> Payload("ok", ToJson(d.docs[1]))
         [] OTHER -> Payload("ok", ToJson(Arr(d.docs)))

\* the match of read_yaml on the documents
Flatten(d) ==
  IF d.kind # "ok" THEN Payload(d.kind, <<>>)
  ELSE CASE Len(d.docs) = 1 -> Payload("ok", ToJson(d.docs[1]))
         [] Len(d.docs) = 0 -> Payload("ok", ToJson(EmptyMap))
         [] OTHER -> Payload("ok", ToJson(Arr(d.docs)))

\* Args::read_yaml
ReadYaml(a, e, src) == Flatten(ReadYamlDocs(a, e, src))

\* the lines of the TOML of the model: key = value
TomlLines == {"a = 'x'", "b = 1"}

TomlKey(l) == CASE l = "a = 'x'" -> <<"a">> [] l = "b = 1" -> <<"b">>

TomlVal(l) == CASE l = "a = 'x'" -> Str(<<"x">>) [] l = "b = 1" -> Num(1)

\* str::parse::<Table>: a line that is no key = value, or a key defined
\* twice, is an error; no line at all is the empty table
RECURSIVE TomlTable(_, _)
TomlTable(lines, acc) ==
  IF lines = <<>> THEN [ok |-> TRUE, v |-> acc]
  ELSE IF Head(lines) \notin TomlLines THEN [ok |-> FALSE, v |-> Null]
  ELSE IF \E j \in 1..Len(acc.keys) : acc.keys[j] = TomlKey(Head(lines))
  THEN [ok |-> FALSE, v |-> Null]
  ELSE TomlTable(Tail(lines),
                 Obj(Append(acc.keys, TomlKey(Head(lines))),
                     Append(acc.items, TomlVal(Head(lines)))))

OneDoc(t) == IF t.ok THEN Decoded("ok", <<t.v>>) ELSE Decoded("parse", <<>>)

\* Args::read_toml
ReadToml(a, e, src) ==
  IF ~HasSource(a, e) THEN Decoded("usage", <<>>)
  ELSE OneDoc(TomlTable(src.lines, EmptyMap))

\* Args::read_toml_docs
ReadTomlDocs(a, e, src) == ReadToml(a, e, src)

\* Args::read_json
ReadJson(a, e, src) ==
  IF ~HasSource(a, e) THEN Decoded("usage", <<>>)
  ELSE OneDoc(FromSlice(src.bytes))

\* the outermost array of a JSON source is its documents
Unwrap(j) ==
  IF j.kind = "ok" /\ j.docs[1].t = "arr" THEN Decoded("ok", j.docs[1].items)
  ELSE j

\* Args::read_json_docs
ReadJsonDocs(a, e, src) == Unwrap(ReadJson(a, e, src))

\* serde_json::to_vec of the one value read
ToVec(d) ==
  IF d.kind = "ok" THEN Payload("ok", ToJson(d.docs[1]))
  ELSE Payload(d.kind, <<>>)

\* Args::read_input
ReadInput(a, e, src) ==
  CASE a.input = "Yaml" -> ReadYaml(a, e, src)
    [] a.input = "Toml" -> ToVec(ReadToml(a, e, src))
    [] a.input = "Json" -> ToVec(ReadJson(a, e, src))

\* Args::read_input_multidoc
ReadInputMultidoc(a, e, src) ==
  CASE a.input = "Yaml" -> ReadYamlDocs(a, e, src)
    [] a.input = "Toml" -> ReadTomlDocs(a, e, src)
    [] a.input = "Json" -> ReadJsonDocs(a, e, src)

(***************************************************************************)
(* The encoders.  A YAML or TOML text is held as the value it encodes      *)
(* (serde_yaml::to_string and toml::to_string, then trim_end); the text of *)
(* the processor's own format is held as its bytes.                        *)
(***************************************************************************)
Encoded(fmt, v, text) == [ok |-> TRUE, fmt |-> fmt, value |-> v, text |-> text]

EncodeError == [ok |-> FALSE, fmt |-> "none", value |-> Null, text |-> <<>>]

NoDoc == EncodeError

\* str::trim_end
RECURSIVE TrimEnd(_)
TrimEnd(b) ==
  IF b # <<>> /\ IsWs(b[Len(b)]) THEN TrimEnd(SubSeq(b, 1, Len(b) - 1)) ELSE b

\* toml::to_string: the top level is a table, and TOML has no null
RECURSIVE HasNull(_)
HasNull(v) ==
  v.t = "null" \/ \E i \in 1..Len(v.items) : HasNull(v.items[i])

TomlToString(v) ==
  IF v.t = "obj" /\ ~HasNull(v) THEN Encoded("toml", v, <<>>) ELSE EncodeError

\* a variant of YamlCollapse without the arms for one value and for none
YamlCollapseOneArm(docs) == Encoded("yaml", Arr(docs), <<>>)

\* the match of Output::Yaml on the values read from the stream
YamlCollapse(docs) ==
  CASE Len(docs) = 1 -> Encoded("yaml", docs[1], <<>>)
    [] Len(docs) = 0 -> Encoded("yaml", EmptyMap, <<>>)
    [] OTHER -> Encoded("yaml", Arr(docs), <<>>)

\* Output::Toml: the one value of the stream, as TOML
TomlOne(r) == IF r.ok THEN TomlToString(r.v) ELSE EncodeError

\* Args::output
Output(a, bytes) ==
  CASE a.output = "Jq" -> Encoded("jq", Null, TrimEnd(bytes))
    [] a.output = "Yaml" -> YamlCollapse(StreamValues(bytes, 1, <<>>))
    [] a.output = "Toml" -> TomlOne(FromSlice(bytes))

(***************************************************************************)
(* Args::shellout as main sees it: what one call can end with.  The child  *)
(* may fail to start; a child that ends with a status other than 0 gives   *)
(* the error of line 296, unless it ended without reading its input and    *)
(* write_all found the pipe closed, where the unwrap of line 291 panics.   *)
(* Below, the same call is modelled pipe by pipe.                          *)
(***************************************************************************)
Ended(kind, status, out, tokens) ==
  [kind |-> kind, status |-> status, out |-> out, tokens |-> tokens]

Outcomes(j, stdin) ==
  {Ended("spawn", 0, <<>>, <<>>)} \cup
  (IF j.status = 0 THEN {Ended("ok", 0, j.out, j.tokens)}
   ELSE {Ended("rejected", j.status, <<>>, <<>>)} \cup
        (IF ~j.reads /\ stdin # <<>> THEN {Ended("panic", j.status, <<>>, <<>>)}
         ELSE {}))

Shellout(stdin, argv) == Outcomes(Jq(argv, stdin), stdin)

(***************************************************************************)
(* The bounds of the model, and the inputs drawn within them.              *)
(***************************************************************************)
MaxDocs == 2

MaxLines == 2

MaxTokens == 3

DocX == Obj(<<<<"a">>>>, <<Str(<<"x">>)>>)

\* the documents of a YAML source: two that convert, one that does not
Sections ==
  {[ok |-> TRUE, v |-> DocX], [ok |-> TRUE, v |-> EmptyMap],
   [ok |-> FALSE, v |-> Null]}

SeqsUpTo(S, n) == UNION {[1..k -> S] : k \in 0..n}

JsonValues == {DocX, Num(1)} \cup {Arr(xs) : xs \in SeqsUpTo({DocX, EmptyMap}, MaxDocs)}

\* the bytes of a JSON source: values, no byte at all, and bytes that are
\* no value
JsonTexts ==
  {ToJson(v) : v \in JsonValues} \cup {<<>>, <<"[">>, ToJson(DocX) \o <<"x">>}

NoSource == [sections |-> <<>>, bytes |-> <<>>, lines |-> <<>>]

Sources(input) ==
  CASE input = "Yaml" ->
         {[NoSource EXCEPT !.sections = ss] : ss \in SeqsUpTo(Sections, MaxDocs)}
    [] input = "Json" -> {[NoSource EXCEPT !.bytes = b] : b \in JsonTexts}
    [] input = "Toml" ->
         {[NoSource EXCEPT !.lines = ls] :
            ls \in SeqsUpTo(TomlLines \cup {"bad"}, MaxLines)}

\* --output, -y and -t as given on the command line
OutputChoices ==
  {[output |-> "Jq", output_given |-> FALSE, yaml_output |-> FALSE, toml_output |-> FALSE],
   [output |-> "Jq", output_given |-> FALSE, yaml_output |-> TRUE, toml_output |-> FALSE],
   [output |-> "Toml", output_given |-> TRUE, yaml_output |-> FALSE, toml_output |-> FALSE],
   [output |-> "Yaml", output_given |-> TRUE, yaml_output |-> TRUE, toml_output |-> FALSE],
   [output |-> "Jq", output_given |-> FALSE, yaml_output |-> TRUE, toml_output |-> TRUE]}

\* -c, -r, -j and -L as given
FlagChoices ==
  {[compact_output |-> FALSE, raw_output |-> FALSE, join_output |-> FALSE, modules |-> None],
   [compact_output |-> FALSE, raw_output |-> TRUE, join_output |-> FALSE, modules |-> None],
   [compact_output |-> TRUE, raw_output |-> FALSE, join_output |-> TRUE, modules |-> "lib"]}

Queries == {".", ".[]", ".a", ".["}

SplitChoices == {None, ".a", ".[]"}

\* a file that exists, a file that does not, data on the standard input,
\* a terminal
Envs ==
  {[file |-> "in", fileExists |-> TRUE, stdinTty |-> TRUE, cfgTest |-> FALSE],
   [file |-> "in", fileExists |-> FALSE, stdinTty |-> TRUE, cfgTest |-> FALSE],
   [file |-> None, fileExists |-> FALSE, stdinTty |-> FALSE, cfgTest |-> FALSE],
   [file |-> None, fileExists |-> FALSE, stdinTty |-> TRUE, cfgTest |-> FALSE]}

MkArgs(input, o, f, in_place, split, query, file) ==
  [input |-> input, output |-> o.output, output_given |-> o.output_given,
   yaml_output |-> o.yaml_output, toml_output |-> o.toml_output,
   in_place |-> in_place, split |-> split, jq_query |-> query, file |-> file,
   compact_output |-> f.compact_output, raw_output |-> f.raw_output,
   join_output |-> f.join_output, modules |-> f.modules]

(***************************************************************************)
(* The state of a run.                                                     *)
(***************************************************************************)
VARIABLES
  args,         \* the parsed command line
  env,          \* whether the file exists, whether stdin is a terminal
  source,       \* what the file or the standard input holds
  pc,           \* main's position
  inputs,       \* split mode: the documents read
  idx,          \* split mode: the document of the loop
  input,        \* the bytes handed to the processor
  key,          \* split mode: the split key of the document
  stdout,       \* the bytes the processor returned
  doc,          \* the encoded output
  invocations,  \* the children started
  files,        \* split mode: the files created, by key
  creates,      \* split mode: the calls of File::create that succeeded
  inplace,      \* the texts written over the input file
  console,      \* the texts written to the standard output
  exit,         \* the status the process ended with, -1 while it runs
  err,          \* the error the run ended with
  emitted,      \* the tokens the processor printed, one by one
  sh,           \* one call of shellout, pipe by pipe: the parent's side
  child,        \* the child of that call
  inPipe,       \* the bytes in the pipe to the child's standard input
  outPipe       \* the bytes in the pipe from the child's standard output

runVars ==
  <<args, env, source, pc, inputs, idx, input, key, stdout, doc, invocations,
    files, creates, inplace, console, exit, err, emitted>>

shVars == <<sh, child, inPipe, outPipe>>

vars == <<runVars, shVars>>

Running == -1

NoFiles == [p \in {} |-> NoDoc]

Fresh ==
  /\ inputs = <<>>
  /\ idx = 1
  /\ input = <<>>
  /\ key = <<>>
  /\ stdout = <<>>
  /\ doc = NoDoc
  /\ invocations = 0
  /\ files = NoFiles
  /\ creates = 0
  /\ inplace = <<>>
  /\ console = <<>>
  /\ exit = Running
  /\ err = "none"
  /\ emitted = <<>>

\* no call of shellout under way
NoChild == [pc |-> "none", kind |-> "none", status |-> 0, outLeft |-> 0, eof |-> FALSE]

NoCall ==
  /\ sh = [pc |-> "idle", left |-> 0, stdinOpen |-> FALSE, collected |-> 0,
           result |-> "none", status |-> 0]
  /\ child = NoChild
  /\ inPipe = 0
  /\ outPipe = 0

Init ==
  /\ env \in {[fileExists |-> e.fileExists, stdinTty |-> e.stdinTty,
               cfgTest |-> e.cfgTest] : e \in Envs}
  /\ \E i \in {"Yaml", "Json", "Toml"}, o \in OutputChoices, f \in FlagChoices,
        ip \in BOOLEAN, sp \in SplitChoices, q \in Queries, e \in Envs :
       /\ env = [fileExists |-> e.fileExists, stdinTty |-> e.stdinTty,
                 cfgTest |-> e.cfgTest]
       /\ args = MkArgs(i, o, f, ip, sp, q, e.file)
       /\ source \in (IF HasSource(args, env) THEN Sources(i) ELSE {NoSource})
  /\ pc = "parse"
  /\ Fresh
  /\ NoCall

\* the end of the process with a status
Exit(status, error) ==
  /\ pc' = "done"
  /\ exit' = status
  /\ err' = error

\* clap's conflicts_with of lines 49-90
Conflicts(a) ==
  \/ a.yaml_output /\ a.toml_output
  \/ (a.yaml_output \/ a.toml_output) /\ a.output_given
  \/ a.split # None /\
     (a.in_place \/ a.raw_output \/ a.compact_output \/ a.join_output)

\* main, lines 366-375: Args::parse, which ends the process with status 2 on
\* a usage error, then the shortcuts, then the choice of the mode
ParseArgs ==
  /\ pc = "parse"
  /\ IF Conflicts(args)
     THEN Exit(2, "clap") /\ UNCHANGED args
     ELSE /\ args' = [args EXCEPT !.output =
                        IF args.yaml_output THEN "Yaml"
                        ELSE IF args.toml_output THEN "Toml" ELSE @]
          /\ pc' = IF args.split # None THEN "read_multidoc" ELSE "read"
          /\ UNCHANGED <<exit, err>>
  /\ UNCHANGED <<env, source, inputs, idx, input, key, stdout, doc, invocations,
                 files, creates, inplace, console, emitted>>
  /\ UNCHANGED shVars

\* how a reader's failure ends the run
ReadFailure(kind) ==
  IF kind = "usage" THEN Exit(UsageExit, "usage") ELSE Exit(1, "parse")

\* main, line 396
ReadingInput ==
  /\ pc = "read"
  /\ \E r \in {ReadInput(args, env, source)} :
       IF r.kind = "ok"
       THEN input' = r.bytes /\ pc' = "invoke" /\ UNCHANGED <<exit, err>>
       ELSE ReadFailure(r.kind) /\ UNCHANGED input
  /\ UNCHANGED <<args, env, source, inputs, idx, key, stdout, doc, invocations,
                 files, creates, inplace, console, emitted>>
  /\ UNCHANGED shVars

\* how one call of shellout by main goes on: it returns the bytes and main
\* moves to `next`, or its error ends the run (a panic with status 101)
Return(o, next) ==
  /\ invocations' = IF o.kind = "spawn" THEN invocations ELSE invocations + 1
  /\ CASE o.kind = "ok" -> pc' = next /\ UNCHANGED <<exit, err>>
       [] o.kind = "panic" -> Exit(101, "panic")
       [] OTHER -> Exit(1, o.kind)

\* main, line 397
Invoking ==
  /\ pc = "invoke"
  /\ \E o \in Shellout(input, JqArgs(args)) :
       /\ Return(o, "encode")
       /\ stdout' = IF o.kind = "ok" THEN o.out ELSE stdout
       /\ emitted' = IF o.kind = "ok" THEN o.tokens ELSE emitted
  /\ UNCHANGED <<args, env, source, inputs, idx, input, key, doc, files,
                 creates, inplace, console>>
  /\ UNCHANGED shVars

\* main, line 399
Encoding ==
  /\ pc = "encode"
  /\ \E d \in {Output(args, stdout)} :
     IF d.ok
     THEN doc' = d /\ pc' = "emit" /\ UNCHANGED <<exit, err>>
     ELSE Exit(1, "encode") /\ UNCHANGED doc
  /\ UNCHANGED <<args, env, source, inputs, idx, input, key, stdout,
                 invocations, files, creates, inplace, console, emitted>>
  /\ UNCHANGED shVars

\* main, lines 400-409
Emitting ==
  /\ pc = "emit"
  /\ IF args.in_place /\ args.file # None
     THEN inplace' = Append(inplace, doc) /\ UNCHANGED console
     ELSE console' = Append(console, doc) /\ UNCHANGED inplace
  /\ Exit(0, "none")
  /\ UNCHANGED <<args, env, source, inputs, idx, input, key, stdout, doc,
                 invocations, files, creates, emitted>>
  /\ UNCHANGED shVars

\* main, line 377, and the loop's first test
ReadingMultidoc ==
  /\ pc = "read_multidoc"
  /\ \E r \in {ReadInputMultidoc(args, env, source)} :
     IF r.kind = "ok"
     THEN /\ inputs' = r.docs
          /\ IF r.docs = <<>> THEN Exit(0, "none")
             ELSE pc' = "derive_key" /\ UNCHANGED <<exit, err>>
     ELSE ReadFailure(r.kind) /\ UNCHANGED inputs
  /\ UNCHANGED <<args, env, source, idx, input, key, stdout, doc, invocations,
                 files, creates, inplace, console, emitted>>
  /\ UNCHANGED shVars

\* main, lines 381-383
DeriveKey ==
  /\ pc = "derive_key"
  /\ \E data \in {ToJson(inputs[idx])} :
       /\ input' = data
       /\ \E o \in Shellout(data, JqSplitArgs(args)) :
            /\ Return(o, "split_invoke")
            /\ key' = IF o.kind = "ok" THEN TrimEnd(o.out) ELSE key
  /\ UNCHANGED <<args, env, source, inputs, idx, stdout, doc, files, creates,
                 inplace, console, emitted>>
  /\ UNCHANGED shVars

\* main, line 386
SplitInvoke ==
  /\ pc = "split_invoke"
  /\ \E o \in Shellout(input, JqArgs(args)) :
       /\ Return(o, "split_encode")
       /\ stdout' = IF o.kind = "ok" THEN o.out ELSE stdout
       /\ emitted' = IF o.kind = "ok" THEN o.tokens ELSE emitted
  /\ UNCHANGED <<args, env, source, inputs, idx, input, key, doc, files,
                 creates, inplace, console>>
  /\ UNCHANGED shVars

\* main, line 387
SplitEncode ==
  /\ pc = "split_encode"
  /\ \E d \in {Output(args, stdout)} :
     IF d.ok
     THEN doc' = d /\ pc' = "write_file" /\ UNCHANGED <<exit, err>>
     ELSE Exit(1, "encode") /\ UNCHANGED doc
  /\ UNCHANGED <<args, env, source, inputs, idx, input, key, stdout,
                 invocations, files, creates, inplace, console, emitted>>
  /\ UNCHANGED shVars

\* File::create of Path::new(".").join(key): the empty key names the
\* directory itself, which cannot be created as a file
CanCreate(k) == k # <<>>

\* main, lines 389-393, and the loop's next test
WriteFile ==
  /\ pc = "write_file"
  /\ IF CanCreate(key)
     THEN /\ files' = [p \in DOMAIN files \cup {key} |->
                         IF p = key THEN doc ELSE files[p]]
          /\ creates' = creates + 1
          /\ idx' = idx + 1
          /\ IF idx + 1 > Len(inputs) THEN Exit(0, "none")
             ELSE pc' = "derive_key" /\ UNCHANGED <<exit, err>>
     ELSE Exit(1, "io") /\ UNCHANGED <<files, creates, idx>>
  /\ UNCHANGED <<args, env, source, inputs, input, key, stdout, doc,
                 invocations, inplace, console, emitted>>
  /\ UNCHANGED shVars

Next ==
  \/ ParseArgs
  \/ ReadingInput
  \/ Invoking
  \/ Encoding
  \/ Emitting
  \/ ReadingMultidoc
  \/ DeriveKey
  \/ SplitInvoke
  \/ SplitEncode
  \/ WriteFile

Spec == Init /\ [][Next]_vars
(***************************************************************************)
(* The encoder alone: Args::output on the text a processor printed, for    *)
(* every target format and every stream of up to MaxTokens tokens, each    *)
(* token a value of the processor's grammar or one that is none, each      *)
(* followed by a newline as jq prints them.                                *)
(***************************************************************************)
TokenValues == {Num(12), Str(<<"x">>), DocX}

Tokens ==
  {[ok |-> TRUE, v |-> val, bytes |-> ToJson(val)] : val \in TokenValues} \cup
  {[ok |-> FALSE, v |-> Str(<<"x">>), bytes |-> <<"x">>],
   [ok |-> FALSE, v |-> Null, bytes |-> <<"[", "1">>]}

StreamOf(ts) == Concat([i \in 1..Len(ts) |-> ts[i].bytes \o <<NL>>])

DefaultFlags ==
  [compact_output |-> FALSE, raw_output |-> FALSE, join_output |-> FALSE,
   modules |-> None]

InitOutput ==
  /\ env = [fileExists |-> FALSE, stdinTty |-> FALSE, cfgTest |-> FALSE]
  /\ \E o \in {"Jq", "Yaml", "Toml"} :
       args = MkArgs("Yaml",
                     [output |-> o, output_given |-> TRUE,
                      yaml_output |-> FALSE, toml_output |-> FALSE],
                     DefaultFlags, FALSE, None, ".", None)
  /\ source = NoSource
  /\ pc = "encode"
  /\ \E ts \in SeqsUpTo(Tokens, MaxTokens) :
       /\ stdout = StreamOf(ts)
       /\ emitted = [i \in 1..Len(ts) |-> [ok |-> ts[i].ok, v |-> ts[i].v]]
  /\ inputs = <<>>
  /\ idx = 1
  /\ input = ToJson(EmptyMap)
  /\ key = <<>>
  /\ doc = NoDoc
  /\ invocations = 1
  /\ files = NoFiles
  /\ creates = 0
  /\ inplace = <<>>
  /\ console = <<>>
  /\ exit = Running
  /\ err = "none"
  /\ NoCall

NextOutput ==
  \/ Encoding
  \/ Emitting

SpecOutput == InitOutput /\ [][NextOutput]_vars

(***************************************************************************)
(* One call of Args::shellout, pipe by pipe.  The parent writes the input  *)
(* into the pipe to the child's standard input (write_all), closes it      *)
(* (drop), then reads the child's standard output to its end and takes the *)
(* exit status (wait_with_output).  A pipe holds PipeCap bytes: a write to *)
(* a full pipe waits, a read of an empty pipe waits while the other end is *)
(* open, a write to a pipe whose reader is gone fails.  The child is any   *)
(* process: a filter reads its input to the end, writes OutLen bytes at    *)
(* any time it chooses and then exits; a rejecting child may also exit     *)
(* early, with a status other than 0.                                      *)
(***************************************************************************)
PipeCap == 2

MaxPayload == 3

MaxOut == 3

ChildKinds == {"filter", "reject"}

\* what a child may turn to next: a read, a write of the next byte of its
\* output, or its exit
ChildNext(c) ==
  (IF ~c.eof THEN {[c EXCEPT !.pc = "reading"]} ELSE {}) \cup
  (IF c.outLeft > 0 THEN {[c EXCEPT !.pc = "writing"]} ELSE {}) \cup
  (IF c.eof /\ c.outLeft = 0
   THEN {[c EXCEPT !.pc = "exited", !.status = st] :
           st \in (IF c.kind = "filter" THEN {0} ELSE {0, 5})}
   ELSE {}) \cup
  (IF c.kind = "reject" THEN {[c EXCEPT !.pc = "exited", !.status = 3]} ELSE {})

InitShellout ==
  /\ env = [fileExists |-> FALSE, stdinTty |-> FALSE, cfgTest |-> FALSE]
  /\ args = MkArgs("Yaml",
                   [output |-> "Jq", output_given |-> FALSE,
                    yaml_output |-> FALSE, toml_output |-> FALSE],
                   DefaultFlags, FALSE, None, ".", None)
  /\ source = NoSource
  /\ pc = "invoke"
  /\ Fresh
  /\ \E n \in 0..MaxPayload :
       sh = [pc |-> "spawn", left |-> n, stdinOpen |-> FALSE, collected |-> 0,
             result |-> "none", status |-> 0]
  /\ \E k \in ChildKinds, n \in 0..MaxOut :
       child = [pc |-> "none", kind |-> k, status |-> 0, outLeft |-> n,
                eof |-> FALSE]
  /\ inPipe = 0
  /\ outPipe = 0

\* lines 283-290: Command::new("jq")...spawn()?, which may fail
ShSpawn ==
  /\ sh.pc = "spawn"
  /\ \E started \in BOOLEAN :
       IF started
       THEN /\ sh' = [sh EXCEPT !.pc = "write", !.stdinOpen = TRUE]
            /\ child' \in ChildNext(child)
       ELSE /\ sh' = [sh EXCEPT !.pc = "returned", !.result = "Spawn"]
            /\ UNCHANGED child
  /\ UNCHANGED <<inPipe, outPipe, runVars>>

\* line 291: stdin.write_all(&input).unwrap(), one write at a time: done
\* when nothing is left, a panic when the child's end is closed, a byte into
\* the pipe when it has room, and a wait otherwise
ShWrite ==
  /\ sh.pc = "write"
  /\ IF sh.left = 0
     THEN sh' = [sh EXCEPT !.pc = "drop"] /\ UNCHANGED inPipe
     ELSE IF child.pc = "exited"
     THEN sh' = [sh EXCEPT !.pc = "panicked"] /\ UNCHANGED inPipe
     ELSE /\ inPipe < PipeCap
          /\ inPipe' = inPipe + 1
          /\ sh' = [sh EXCEPT !.left = @ - 1]
  /\ UNCHANGED <<child, outPipe, runVars>>

\* line 292: drop(stdin)
ShDrop ==
  /\ sh.pc = "drop"
  /\ sh' = [sh EXCEPT !.pc = "wait", !.stdinOpen = FALSE]
  /\ UNCHANGED <<child, inPipe, outPipe, runVars>>

\* lines 294-299: wait_with_output, which reads the output to its end and
\* then takes the status, and the test of the status
ShWait ==
  /\ sh.pc = "wait"
  /\ IF outPipe > 0
     THEN /\ sh' = [sh EXCEPT !.collected = @ + outPipe]
          /\ outPipe' = 0
     ELSE /\ child.pc = "exited"
          /\ sh' = [sh EXCEPT !.pc = "returned", !.status = child.status,
                              !.result = IF child.status = 0 THEN "Ok"
                                         ELSE "Rejected"]
          /\ UNCHANGED outPipe
  /\ UNCHANGED <<child, inPipe, runVars>>

\* the child reads: a byte of the pipe, or the end of its input once the
\* parent has closed the pipe
ChildRead ==
  /\ child.pc = "reading"
  /\ IF inPipe > 0
     THEN /\ inPipe' = inPipe - 1
          /\ child' \in ChildNext(child)
     ELSE /\ ~sh.stdinOpen
          /\ child' \in ChildNext([child EXCEPT !.eof = TRUE])
          /\ UNCHANGED inPipe
  /\ UNCHANGED <<sh, outPipe, runVars>>

\* the child writes a byte of its output, once the pipe has room
ChildWrite ==
  /\ child.pc = "writing"
  /\ outPipe < PipeCap
  /\ outPipe' = outPipe + 1
  /\ child' \in ChildNext([child EXCEPT !.outLeft = @ - 1])
  /\ UNCHANGED <<sh, inPipe, runVars>>

NextShellout ==
  \/ ShSpawn
  \/ ShWrite
  \/ ShDrop
  \/ ShWait
  \/ ChildRead
  \/ ChildWrite

SpecShellout == InitShellout /\ [][NextShellout]_vars
(***************************************************************************)
(* What the claims speak of.                                               *)
(***************************************************************************)
\* the collapse rule as stated: nothing, one value, or the sequence
Collapsed(vs) ==
  CASE Len(vs) = 0 -> EmptyMap
    [] Len(vs) = 1 -> vs[1]
    [] OTHER -> Arr(vs)

ValuesOf(ts) == [i \in 1..Len(ts) |-> ts[i].v]

AllValid(ts) == \A i \in 1..Len(ts) : ts[i].ok

SomeInvalid(ts) == \E i \in 1..Len(ts) : ~ts[i].ok

AfterEncode == pc \in {"emit", "done"}

NonNative == args.output \in {"Yaml", "Toml"}

NoEffects ==
  /\ invocations = 0
  /\ files = NoFiles
  /\ creates = 0
  /\ inplace = <<>>
  /\ console = <<>>

\* C1 as stated: for YAML and TOML alike, a stream of k well-formed tokens
\* is encoded without error as the empty mapping (k = 0), the value alone
\* (k = 1) or the sequence of the values in order (k >= 2)
C1_CollapseEveryTarget ==
  (NonNative /\ AllValid(emitted) /\ AfterEncode) =>
    /\ err = "none"
    /\ doc.ok
    /\ doc.value = Collapsed(ValuesOf(emitted))

\* C1 amended: the collapse rule holds for the YAML target; for the TOML
\* target the encoder succeeds only on a stream of exactly one token, whose
\* value it encodes alone, and fails for k = 0 and k >= 2
C1_CollapseYaml ==
  /\ (args.output = "Yaml" /\ AllValid(emitted) /\ AfterEncode) =>
       /\ err = "none"
       /\ doc.ok /\ doc.fmt = "yaml"
       /\ doc.value = Collapsed(ValuesOf(emitted))
  /\ (args.output = "Toml" /\ AllValid(emitted) /\ AfterEncode) =>
       IF Len(emitted) = 1
       THEN err = "none" => doc.ok /\ doc.fmt = "toml" /\ doc.value = emitted[1].v
       ELSE err = "encode" /\ ~doc.ok

\* C1 witness: three well-formed tokens encoded as YAML, as a sequence
C1_Witness ==
  /\ args.output = "Yaml" /\ AllValid(emitted) /\ Len(emitted) = 3
  /\ pc = "emit" /\ doc.ok /\ doc.value.t = "arr" /\ Len(doc.value.items) = 3

\* C8 as stated: for YAML and TOML, a token at any place that is no value of
\* the processor's grammar makes the encoder fail and encode nothing
C8_InvalidTokenFails ==
  (NonNative /\ SomeInvalid(emitted) /\ AfterEncode) =>
    /\ err = "encode"
    /\ ~doc.ok

\* the documents of a YAML source, as the source holds them
SourceDocs == [i \in 1..Len(source.sections) |-> source.sections[i].v]

JoinLines(parts) ==
  Concat([i \in 1..Len(parts) |->
            (IF i > 1 THEN <<NL>> ELSE <<>>) \o parts[i]])

\* the split key of a document: the results of the split-key expression on
\* the document itself, strings without their quotes
KeyFor(d) ==
  LET r == JqEval(args.split, d).vs IN
  JoinLines([i \in 1..Len(r) |-> IF r[i].t = "str" THEN r[i].s ELSE ToJson(r[i])])

\* the main query's result on a document, encoded in the target format
ResultFor(d) ==
  LET r == JqEval(args.jq_query, d).vs IN
  CASE args.output = "Jq" ->
         Encoded("jq", Null, JoinLines([i \in 1..Len(r) |-> ToJson(r[i])]))
    [] args.output = "Yaml" -> Encoded("yaml", Collapsed(r), <<>>)
    [] args.output = "Toml" -> Encoded("toml", Collapsed(r), <<>>)

SplitDone == args.split # None /\ pc = "done" /\ exit = 0

\* C2 as stated: after a split run on N documents that succeeds, exactly N
\* files exist, each named by its document's split key and holding its
\* document's result
C2_ExactlyNFiles ==
  SplitDone =>
    /\ Cardinality(DOMAIN files) = Len(inputs)
    /\ \A i \in 1..Len(inputs) :
         /\ KeyFor(inputs[i]) \in DOMAIN files
         /\ files[KeyFor(inputs[i])] = ResultFor(inputs[i])

\* C2 amended: after a split run on N documents in which every invocation,
\* encoding and file creation succeeds, N files have been created, one per
\* document in order, each at the path of its own document's split key with
\* its own document's result; documents with the same key write the same
\* file, which holds the result of the last of them, so exactly N files
\* exist when the keys differ
C2_SplitFiles ==
  SplitDone =>
    /\ args.input = "Yaml" => inputs = SourceDocs
    /\ creates = Len(inputs)
    /\ DOMAIN files = {KeyFor(inputs[i]) : i \in 1..Len(inputs)}
    /\ \A i \in 1..Len(inputs) :
         (\A j \in (i + 1)..Len(inputs) : KeyFor(inputs[j]) # KeyFor(inputs[i]))
           => files[KeyFor(inputs[i])] = ResultFor(inputs[i])

\* C2 witness: a split run on two documents that ends with two files, whose
\* names differ from what the main query gives
C2_Witness ==
  /\ SplitDone /\ Len(inputs) = 2 /\ Cardinality(DOMAIN files) = 2
  /\ args.split # args.jq_query

\* the single-pass run has read its input
SingleRead ==
  /\ args.split = None
  /\ pc \in {"invoke", "encode", "emit"} \/ (pc = "done" /\ err \notin {"clap", "usage", "parse"})

\* the payload is built from the documents ds by the rule of the claim
BuiltFrom(ds) ==
  CASE Len(ds) = 1 -> input = ToJson(ds[1])
    [] Len(ds) = 0 -> input = ToJson(EmptyMap)
    [] OTHER ->
         /\ FromSlice(input) = Parsed(TRUE, Arr(ds))
         /\ \A f \in IndexFilters :
              FilterIndex(f) < Len(ds) =>
                JqEval(f, FromSlice(input).v) = Results(TRUE, <<ds[FilterIndex(f) + 1]>>)

OnceInvoked ==
  /\ invocations <= 1
  /\ (pc \in {"encode", "emit"} \/ (pc = "done" /\ exit = 0)) => invocations = 1

\* C3 as stated: in single-pass mode, whatever the source format, the
\* processor is invoked once and its payload is the one decoded document
\* unwrapped, the empty mapping for none, the array of the documents for
\* two or more
C3_PayloadFromDocs ==
  SingleRead =>
    /\ OnceInvoked
    /\ BuiltFrom(ReadInputMultidoc(args, env, source).docs)

\* C3 amended: that holds with YAML as the source format; with JSON and
\* TOML the one decoded tree is the payload as it is, an outermost array
\* of one or no element included
C3_YamlPayload ==
  SingleRead =>
    /\ OnceInvoked
    /\ args.input = "Yaml" => BuiltFrom(SourceDocs)
    /\ args.input = "Json" => FromSlice(input) = FromSlice(source.bytes)
    /\ args.input = "Toml" =>
         FromSlice(input) = Parsed(TRUE, TomlTable(source.lines, EmptyMap).v)

\* C3 witness: a single-pass run on a YAML source of two documents has
\* invoked the processor once on their array and ended well
C3_Witness ==
  /\ SingleRead /\ args.input = "Yaml" /\ Len(source.sections) = 2
  /\ pc = "done" /\ exit = 0 /\ invocations = 1
  /\ FromSlice(input).v.t = "arr"

\* there is a source, it holds nothing, and the run has read it
EmptyInput ==
  /\ HasSource(args, env) /\ source = NoSource
  /\ pc \notin {"parse", "read", "read_multidoc"} /\ err # "clap"

\* the Document Stream of the run: in split mode the documents read, in
\* single-pass mode what the decoder of the format gives
Stream ==
  IF args.split # None THEN Decoded(IF err = "parse" THEN "parse" ELSE "ok", inputs)
  ELSE ReadInputMultidoc(args, env, source)

\* what a single-pass run has written
Written == inplace \o console

IsEmptyMap(d) ==
  \/ d.fmt = "jq" /\ d.text = <<"{", "}">>
  \/ d.fmt \in {"yaml", "toml"} /\ d.value = EmptyMap

\* a single-pass run under the identity query that started its processor
\* and ended
IdentityDone ==
  /\ args.split = None /\ args.jq_query = "."
  /\ pc = "done" /\ err \notin {"clap", "spawn"}

EndsWithEmptyMap ==
  /\ exit = 0 /\ err = "none"
  /\ Len(Written) = 1 /\ IsEmptyMap(Written[1])

C6_UsageExitTwo ==
  (~HasSource(args, env) /\ pc = "done") => (exit = 2 /\ NoEffects)

\* C7 as stated: in-place mode without a file, or with split mode, is
\* rejected when the options are validated: the run reads nothing, invokes
\* nothing and never reaches the emitting step
C7_InPlaceRejected ==
  (args.in_place /\ (args.file = None \/ args.split # None)) =>
    /\ pc \in {"parse", "done"}
    /\ pc = "done" => err = "clap"
    /\ NoEffects

\* the source holds a document that does not decode
Malformed ==
  /\ HasSource(args, env)
  /\ CASE args.input = "Yaml" ->
            \E i \in 1..Len(source.sections) : ~source.sections[i].ok
       [] args.input = "Json" ->
            source.bytes \notin {ToJson(v) : v \in JsonValues}
       [] args.input = "Toml" ->
            \/ \E i \in 1..Len(source.lines) : source.lines[i] \notin TomlLines
            \/ \E i, j \in 1..Len(source.lines) :
                 i # j /\ source.lines[i] = source.lines[j]

\* C9: a document that does not decode, wherever it stands in the input,
\* ends the run with the parse error before anything is done: no
\* invocation, no file created, the input file not written, nothing on the
\* standard output, in single-pass mode and in split mode
C9_ParseErrorNoEffects ==
  /\ Malformed =>
       /\ NoEffects
       /\ pc \in {"parse", "read", "read_multidoc", "done"}
       /\ (pc = "done" /\ err # "clap") => (err = "parse" /\ exit = 1)
  /\ err = "parse" => (Malformed /\ NoEffects /\ pc = "done")

\* C9 witness: a split run ended by the parse error of its second document,
\* the first one being well-formed
C9_Witness ==
  /\ err = "parse" /\ args.split # None /\ args.input = "Yaml"
  /\ Len(source.sections) = 2
  /\ source.sections[1].ok /\ ~source.sections[2].ok

CallOver == sh.pc \in {"returned", "panicked"}

\* C5 as stated: a child that was started and ended with a status other
\* than 0 makes shellout return the Rejected error with that status; the
\* call returns no output bytes and ends in no other way
C5_RejectedReturned ==
  (child.pc = "exited" /\ child.status # 0 /\ CallOver) =>
    /\ sh.pc = "returned"
    /\ sh.result = "Rejected"
    /\ sh.status = child.status

\* C10 as stated: with a child that reads its input to the end, writes its
\* output and then exits, a call that has started goes on until it has
\* returned, whatever the sizes of the payload and of the output
C10_NoDeadlock ==
  (child.kind = "filter" /\ ~CallOver) => ENABLED NextShellout
====
